---- MODULE Spec2Model ----
(***************************************************************************)
(* Model of mkc64tap.py, the C64 .TAP generator (CBM ROM loader format).   *)
(*                                                                         *)
(* The script is Python 2 code: map() returns a list (petscii assigns to   *)
(* text[i]), and strings are byte strings.  Text is modelled as a sequence *)
(* of character codes, byte buffers as sequences of integers 0..255, and   *)
(* a Python list of pulse codes as a sequence of integers.                 *)
(***************************************************************************)
EXTENDS Integers, Sequences, FiniteSets, TLC

VARIABLES
    pc,       \* position of the running function: see Init* below
    files,    \* main: args.file, each with the content open(filename) reads
    idx,      \* main: index of the next file of the for loop (1-based)
    data,     \* main: the list `data` that gathers the encoded files
    out,      \* main: the bytes written so far to the output file
    raised,   \* main: the exception that ended the run ("none" while running)
    args,     \* the arguments of the function called (function specs)
    ret       \* the value that function returned (function specs)

vars == <<pc, files, idx, data, out, raised, args, ret>>

-----------------------------------------------------------------------------
(* Bounds of the explored inputs *)

MaxFiles == 2        \* main: at most this many input files on the command line
MaxProgLen == 2      \* read_file: program bytes after the load address
MaxBytesLen == 3     \* encbytes: length of the byte list
MaxLabelLen == 2     \* make_header: length of the freely chosen labels

-----------------------------------------------------------------------------
(* Constants of the program *)

PULSE_S == 48        \* 0x30
PULSE_M == 66        \* 0x42
PULSE_L == 86        \* 0x56

LEADER_LEN == 27136      \* 0x6a00
GAP_LEN == 79            \* 0x4f
GAP2_LEN == 78           \* 0x4e
LEADER2_LEN == 5376      \* 0x1500
TRAILER_LEN == 904       \* 0x388
BODY_LEN == 171

-----------------------------------------------------------------------------
(* Python primitives used by the program *)

Min(a, b) == IF a < b THEN a ELSE b

\* a ^ b on non-negative integers
RECURSIVE Xor(_, _)
Xor(a, b) ==
    IF a = 0 THEN b
    ELSE IF b = 0 THEN a
    ELSE ((a + b) % 2) + 2 * Xor(a \div 2, b \div 2)

\* x = [] ; for _ in range(n): x.append(v)
Repeat(n, v) == [i \in 1..n |-> v]

\* [x for x in range(hi, lo, -1)]
RangeDown(hi, lo) == [i \in 1..(hi - lo) |-> hi - i + 1]

\* struct.pack("<H", v) for 0 <= v <= 0xFFFF (struct.error otherwise)
CanPackH(v) == v >= 0 /\ v <= 65535
PackH(v) == <<v % 256, (v \div 256) % 256>>

\* struct.unpack("<H", b)[0] for a 2-byte buffer b (struct.error otherwise)
UnpackH(b) == b[1] + 256 * b[2]

\* struct.pack("<I", v) for 0 <= v < 2^32
PackI(v) == <<v % 256, (v \div 256) % 256, (v \div 65536) % 256,
              (v \div 16777216) % 256>>

\* str.upper() of one character of a byte string: a-z only
UpperChar(c) == IF c >= 97 /\ c <= 122 THEN c - 32 ELSE c

\* text.upper()
Upper(text) == [i \in 1..Len(text) |-> UpperChar(text[i])]

\* "." in filename, and filename.index(".") as a 0-based index
DOT == 46
HasDot(filename) == \E i \in 1..Len(filename) : filename[i] = DOT
IndexDot(filename) ==
    (CHOOSE i \in 1..Len(filename) :
        /\ filename[i] = DOT
        /\ \A j \in 1..(i - 1) : filename[j] /= DOT) - 1

-----------------------------------------------------------------------------
(* The encoder *)

\* encbit(bit)
encbit(bit) == IF bit /= 0 THEN <<PULSE_M, PULSE_S>> ELSE <<PULSE_S, PULSE_M>>

\* the body of encbytes' loop for one byte c: `for b in range(8)` from b on,
\* with the running `check`, appending to `encoded`, then the check bit
RECURSIVE EncBits(_, _, _, _)
EncBits(c, b, check, encoded) ==
    IF b = 8 THEN encoded \o encbit(check)
    ELSE LET bit == (c \div (2 ^ b)) % 2
         IN EncBits(c, b + 1, Xor(check, bit), encoded \o encbit(bit))

\* variant of EncByte: the check bit starts from 0
EncByteEvenParity(c) == EncBits(c, 0, 0, <<PULSE_L, PULSE_M>>)

\* one iteration of `for c in data`: the data marker, the bits, the check bit
EncByte(c) == EncBits(c, 0, 1, <<PULSE_L, PULSE_M>>)

\* `encoded` after the loop `for c in data`, given the 20 pulses of each byte:
\* pulse k of the result is pulse (k-1) % 20 of byte (k-1) \div 20
Flatten(per) ==
    [k \in 1..(20 * Len(per)) |-> per[((k - 1) \div 20) + 1][((k - 1) % 20) + 1]]

\* encbytes(data)
encbytes(dat) == Flatten([i \in 1..Len(dat) |-> EncByte(dat[i])])

\* the loop of petscii over one character code c of text.upper()
PetsciiChar(c) == IF 65 <= c /\ c >= 90 THEN c + 32 ELSE c

\* petscii(text)
petscii(text) == [i \in 1..Len(text) |-> PetsciiChar(Upper(text)[i])]

\* checkbyte = 0 ; for c in seq[lo..hi]: checkbyte ^= c
\* (^ is associative: the range is folded by halves to keep the nesting low)
RECURSIVE CheckByteRange(_, _, _)
CheckByteRange(seq, lo, hi) ==
    IF lo > hi THEN 0
    ELSE IF lo = hi THEN seq[lo]
    ELSE LET mid == (lo + hi) \div 2
         IN Xor(CheckByteRange(seq, lo, mid), CheckByteRange(seq, mid + 1, hi))

CheckByte(seq) == CheckByteRange(seq, 1, Len(seq))

\* variant of HeaderLabel: the label is not cut to 16 characters
HeaderLabelUntruncated(filename) ==
    petscii(filename)
    \o (IF Len(filename) < 16 THEN Repeat(16 - Len(filename), 32) ELSE <<>>)

\* the label part of make_header: petscii(filename[:16]) and its padding
HeaderLabel(filename) ==
    petscii(SubSeq(filename, 1, Min(16, Len(filename))))
    \o (IF Len(filename) < 16 THEN Repeat(16 - Len(filename), 32) ELSE <<>>)

\* make_header(t, addr_start, addr_end, filename), both addresses packable
make_header(t, addr_start, addr_end, filename) ==
    LET header == <<t>> \o PackH(addr_start) \o PackH(addr_end)
                  \o HeaderLabel(filename) \o Repeat(BODY_LEN, 32)
    IN Append(header, CheckByte(header))

\* [0x00,0x14,0x00,0x05]
MARKER == <<0, 20, 0, 5>>

\* [PULSE_L, PULSE_S], the "end of data" pair
END_OF_DATA == <<PULSE_L, PULSE_S>>

\* header sync / data sync
SyncBytes == RangeDown(137, 128)
\* header sync (REP) / data sync (REP)
SyncRepBytes == RangeDown(9, 0)

\* make_end_of_tape()
make_end_of_tape ==
    LET header == make_header(5, 0, 0, <<>>)
    IN encbytes(SyncBytes)
       \o encbytes(header)
       \o END_OF_DATA
       \o Repeat(GAP_LEN, PULSE_S)
       \o encbytes(SyncRepBytes)
       \o encbytes(header)
       \o END_OF_DATA
       \o Repeat(TRAILER_LEN, PULSE_S)

\* read_file: the header blocks, from "# header sync" to the second
\* "# end of data"
HeaderPart(header) ==
    encbytes(SyncBytes)
    \o encbytes(header)
    \o END_OF_DATA
    \o Repeat(GAP_LEN, PULSE_S)
    \o encbytes(SyncRepBytes)
    \o encbytes(header)
    \o END_OF_DATA

\* variant of DataBlock: the checkbyte is not encoded
DataBlockNoCheckByte(dat) == encbytes(dat)

\* read_file: "# data": the program bytes and their checkbyte
DataBlock(dat) == encbytes(dat) \o encbytes(<<CheckByte(dat)>>)

\* variant of DataBlockRep: the checkbyte is not computed again
DataBlockRepZeroCheck(dat) == encbytes(dat) \o encbytes(<<0>>)

\* read_file: "# data (REP)": the same, computed again
DataBlockRep(dat) == encbytes(dat) \o encbytes(<<CheckByte(dat)>>)

\* read_file: from "# data sync" to the trailer
DataPart(dat) ==
    encbytes(SyncBytes)
    \o DataBlock(dat)
    \o END_OF_DATA
    \o Repeat(GAP_LEN, PULSE_S)
    \o encbytes(SyncRepBytes)
    \o DataBlockRep(dat)
    \o END_OF_DATA
    \o Repeat(TRAILER_LEN, PULSE_S)

\* variant of SecondLeader: no recording marker before the second leader
SecondLeaderNoMarker ==
    Repeat(GAP2_LEN, PULSE_S) \o Repeat(LEADER2_LEN, PULSE_S)

\* read_file: the second "# gap", the "# trailer" marker and the pulses
\* that follow it
SecondLeader ==
    Repeat(GAP2_LEN, PULSE_S) \o MARKER \o Repeat(LEADER2_LEN, PULSE_S)

\* read_file(filename), content being what open(filename, "rb") reads.
\* The result is [raised, encoded]: the exception that left the function
\* ("none" when it returned) and the local list `encoded` at that point.
read_file(filename, content) ==
    IF Len(content) < 2
    THEN \* struct.unpack("<H", data[:2]) on fewer than 2 bytes
         [raised |-> "struct.error", encoded |-> <<>>]
    ELSE
    LET addr_start == UnpackH(SubSeq(content, 1, 2))
        dat == SubSeq(content, 3, Len(content))
        addr_end == addr_start + Len(dat) + 1
        lead == MARKER \o Repeat(LEADER_LEN, PULSE_S) \o encbytes(SyncBytes)
    IN IF ~HasDot(filename)
       THEN \* filename.index(".") finds no "."
            [raised |-> "ValueError", encoded |-> lead]
       ELSE IF ~CanPackH(addr_end)
       THEN \* struct.pack("<H", addr_end) in make_header
            [raised |-> "struct.error", encoded |-> lead]
       ELSE
       LET header == make_header(3, addr_start, addr_end,
                                 SubSeq(filename, 1, IndexDot(filename)))
       IN [raised |-> "none",
           encoded |-> MARKER
                       \o Repeat(LEADER_LEN, PULSE_S)
                       \o HeaderPart(header)
                       \o SecondLeader
                       \o DataPart(dat)]

\* write_header(fd, data_len): the bytes it writes
SIGNATURE == <<67, 54, 52, 45, 84, 65, 80, 69, 45, 82, 65, 87>>  \* "C64-TAPE-RAW"
write_header(data_len) == SIGNATURE \o <<1>> \o <<0, 0, 0>> \o PackI(data_len)

\* variant of Extend: the new stream goes in front
ExtendFront(list, encoded) == encoded \o list

\* data.extend(encoded) in main's loop
Extend(list, encoded) == list \o encoded

-----------------------------------------------------------------------------
(* Inputs *)

\* file names, as character codes
NameA == <<65, 46, 80, 82, 71>>                          \* "A.PRG"
NameTest == <<116, 101, 115, 116, 46, 112, 114, 103>>    \* "test.prg"
NameNoDot == <<84, 69, 83, 84>>                          \* "TEST"
NameLong == <<65, 66, 67, 68, 69, 70, 71, 72, 73, 74, 75, 76, 77, 78, 79,
              80, 81, 82, 83, 46, 80, 82, 71>>   \* "ABCDEFGHIJKLMNOPQRS.PRG"

\* all sequences over S of length 0..n
SeqsUpTo(S, n) == UNION {[1..k -> S] : k \in 0..n}

\* main: the files that may be named on the command line
FileSample ==
    { [name |-> NameA, content |-> <<1, 8>>],
      [name |-> NameTest, content |-> <<0, 8, 169, 0, 96>>],
      [name |-> NameLong, content |-> <<254, 255>>],
      [name |-> NameA, content |-> <<1>>],
      [name |-> NameTest, content |-> <<>>],
      [name |-> NameNoDot, content |-> <<1, 8>>] }

-----------------------------------------------------------------------------
(* main() *)

Init ==
    /\ pc = "loop"
    /\ files \in UNION {[1..k -> FileSample] : k \in 1..MaxFiles}
    /\ idx = 1
    /\ data = <<>>
    /\ out = <<>>
    /\ raised = "none"
    /\ args = <<>>
    /\ ret = <<>>

\* one iteration of `for filename in args.file` in which read_file returns
ReadFile ==
    /\ pc = "loop"
    /\ idx <= Len(files)
    /\ LET r == read_file(files[idx].name, files[idx].content)
       IN /\ r.raised = "none"
          /\ data' = Extend(data, r.encoded)
    /\ idx' = idx + 1
    /\ UNCHANGED <<pc, files, out, raised, args, ret>>

\* variant of ReadFileRaises: the exception is caught, the file skipped
ReadFileSkips ==
    /\ pc = "loop"
    /\ idx <= Len(files)
    /\ read_file(files[idx].name, files[idx].content).raised /= "none"
    /\ idx' = idx + 1
    /\ UNCHANGED <<pc, files, data, out, raised, args, ret>>

\* an iteration in which read_file raises: nothing catches the exception
ReadFileRaises ==
    /\ pc = "loop"
    /\ idx <= Len(files)
    /\ LET r == read_file(files[idx].name, files[idx].content)
       IN /\ r.raised /= "none"
          /\ raised' = r.raised
    /\ pc' = "error"
    /\ UNCHANGED <<files, idx, data, out, args, ret>>

\* the loop is over: open(args.output, "wb") and write_header(fd, len(data))
WriteHeader ==
    /\ pc = "loop"
    /\ idx > Len(files)
    /\ out' = write_header(Len(data))
    /\ pc' = "header_written"
    /\ UNCHANGED <<files, idx, data, raised, args, ret>>

\* fd.write(bytearray(data))
WriteData ==
    /\ pc = "header_written"
    /\ out' = out \o data
    /\ pc' = "data_written"
    /\ UNCHANGED <<files, idx, data, raised, args, ret>>

\* fd.write(bytearray(make_end_of_tape())), then sys.exit(0)
WriteEndOfTape ==
    /\ pc = "data_written"
    /\ out' = out \o make_end_of_tape
    /\ pc' = "done"
    /\ UNCHANGED <<files, idx, data, raised, args, ret>>

Next == ReadFile \/ ReadFileRaises \/ WriteHeader \/ WriteData \/ WriteEndOfTape

Spec == Init /\ [][Next]_vars

-----------------------------------------------------------------------------
(* One call of make_header *)

TypeSample == {3, 5, 0, 255}
AddrSample == {0, 2049, 65535}
CharSample == {65, 90, 97, 122, 49, 91}     \* A Z a z 1 [
LongText == <<97, 98, 99, 100, 101, 102, 103, 104, 105, 106, 107, 108, 109,
              110, 111, 112, 113, 114, 115, 116>>  \* "abcdefghijklmnopqrst"
LabelSample ==
    SeqsUpTo(CharSample, MaxLabelLen)
    \cup {SubSeq(LongText, 1, n) : n \in 15..20}

Idle ==
    /\ files = <<>>
    /\ idx = 0
    /\ data = <<>>
    /\ out = <<>>
    /\ raised = "none"
    /\ ret = <<>>

InitHeader ==
    /\ pc = "call"
    /\ args \in [t : TypeSample, addr_start : AddrSample, addr_end : AddrSample,
                 filename : LabelSample]
    /\ Idle

CallMakeHeader ==
    /\ pc = "call"
    /\ ret' = make_header(args.t, args.addr_start, args.addr_end, args.filename)
    /\ pc' = "return"
    /\ UNCHANGED <<files, idx, data, out, raised, args>>

SpecHeader == InitHeader /\ [][CallMakeHeader]_vars

-----------------------------------------------------------------------------
(* One call of encbytes *)

ByteSample == {0, 1, 85, 128, 255}
BytesSample == {<<b>> : b \in 0..255} \cup SeqsUpTo(ByteSample, MaxBytesLen)

InitBytes ==
    /\ pc = "call"
    /\ args \in [data : BytesSample]
    /\ Idle

CallEncBytes ==
    /\ pc = "call"
    /\ ret' = encbytes(args.data)
    /\ pc' = "return"
    /\ UNCHANGED <<files, idx, data, out, raised, args>>

SpecBytes == InitBytes /\ [][CallEncBytes]_vars

-----------------------------------------------------------------------------
(* One call of read_file *)

LoadAddrSample == {2049, 65533, 65535}
ProgByteSample == {0, 169, 255}
LongProgram == [i \in 1..40 |-> (7 * i) % 256]
ContentSample ==
    {<<>>, <<1>>, PackH(2049) \o LongProgram}
    \cup {PackH(a) \o p : a \in LoadAddrSample,
                          p \in SeqsUpTo(ProgByteSample, MaxProgLen)}
NameSample == {NameA, NameTest, NameLong, NameNoDot}

InitFile ==
    /\ pc = "call"
    /\ args \in [filename : NameSample, content : ContentSample]
    /\ Idle

CallReadFile ==
    /\ pc = "call"
    /\ ret' = read_file(args.filename, args.content)
    /\ pc' = "return"
    /\ UNCHANGED <<files, idx, data, out, raised, args>>

SpecFile == InitFile /\ [][CallReadFile]_vars

-----------------------------------------------------------------------------
(* What the tape holds, read back from the pulses *)

\* the bit a pair of pulses at s[at], s[at+1] stands for (-1: not a bit)
PulseBit(s, at) ==
    IF s[at] = 66 /\ s[at + 1] = 48 THEN 1
    ELSE IF s[at] = 48 /\ s[at + 1] = 66 THEN 0
    ELSE -1

\* the 20 pulses after offset off are a byte frame: (LONG, MEDIUM), 9 bits
Framed(s, off) ==
    /\ s[off + 1] = 86
    /\ s[off + 2] = 66
    /\ \A b \in 0..8 : PulseBit(s, off + 3 + 2 * b) \in {0, 1}

\* the byte of the frame after offset off, bit 0 first
DecodeByte(s, off) ==
    PulseBit(s, off + 3) + 2 * PulseBit(s, off + 5) + 4 * PulseBit(s, off + 7)
    + 8 * PulseBit(s, off + 9) + 16 * PulseBit(s, off + 11)
    + 32 * PulseBit(s, off + 13) + 64 * PulseBit(s, off + 15)
    + 128 * PulseBit(s, off + 17)

\* the count bytes framed after offset off
DecodeBytes(s, off, count) ==
    [i \in 1..count |-> DecodeByte(s, off + 20 * (i - 1))]

AllFramed(s, off, count) ==
    \A i \in 1..count : Framed(s, off + 20 * (i - 1))

\* the n elements after offset off are all SHORT pulses
AllShort(s, off, n) == \A i \in (off + 1)..(off + n) : s[i] = 48

\* (LONG, SHORT) after offset off
EndMarkAt(s, off) == s[off + 1] = 86 /\ s[off + 2] = 48

\* the literal recording marker after offset off
RecMarkAt(s, off) ==
    s[off + 1] = 0 /\ s[off + 2] = 20 /\ s[off + 3] = 0 /\ s[off + 4] = 5

\* bit b of the XOR of all elements of seq: the parity of the elements having it
ParityBit(seq, b) ==
    Cardinality({i \in 1..Len(seq) : (seq[i] \div (2 ^ b)) % 2 = 1}) % 2

XorOfAll(seq) ==
    ParityBit(seq, 0) + 2 * ParityBit(seq, 1) + 4 * ParityBit(seq, 2)
    + 8 * ParityBit(seq, 3) + 16 * ParityBit(seq, 4) + 32 * ParityBit(seq, 5)
    + 64 * ParityBit(seq, 6) + 128 * ParityBit(seq, 7)

Countdown137 == <<137, 136, 135, 134, 133, 132, 131, 130, 129>>
Countdown9 == <<9, 8, 7, 6, 5, 4, 3, 2, 1>>

\* the length of the stream of a file with n program bytes
StreamLen(n) == 42148 + 40 * n

\* main: where the stream of file j starts in the payload (0-based)
RECURSIVE StreamOffset(_, _)
StreamOffset(fs, j) ==
    IF j = 1 THEN 0
    ELSE StreamOffset(fs, j - 1) + StreamLen(Len(fs[j - 1].content) - 2)

\* main: the streams of the files fs, one after the other in the order of fs
RECURSIVE FileStreams(_)
FileStreams(fs) ==
    IF fs = <<>> THEN <<>>
    ELSE FileStreams(SubSeq(fs, 1, Len(fs) - 1))
         \o read_file(fs[Len(fs)].name, fs[Len(fs)].content).encoded

\* the 9067 elements after offset off are an end-of-tape block: sync, a
\* type-5 control block with start = end = 0 and an empty label, end mark,
\* gap, and the same again after the REP sync, then the trailer
EndOfTapeAt(s, off) ==
    /\ Len(s) >= off + 9067
    /\ AllFramed(s, off, 9 + 193)
    /\ DecodeBytes(s, off, 9) = Countdown137
    /\ DecodeBytes(s, off + 180, 5) = <<5, 0, 0, 0, 0>>
    /\ \A i \in 6..192 : DecodeByte(s, off + 180 + 20 * (i - 1)) = 32
    /\ EndMarkAt(s, off + 4040)
    /\ AllShort(s, off + 4042, 79)
    /\ AllFramed(s, off + 4121, 9 + 193)
    /\ DecodeBytes(s, off + 4121, 9) = Countdown9
    /\ SubSeq(s, off + 4302, off + 8161) = SubSeq(s, off + 181, off + 4040)
    /\ EndMarkAt(s, off + 8161)
    /\ AllShort(s, off + 8163, 904)

-----------------------------------------------------------------------------
(* Claims *)

\* C1: when main is done, the 32-bit little-endian length field at offset 16
\* of the output equals the number of bytes written after the 20-byte header.
C1_LengthFieldIsPayloadLength ==
    pc = "done" =>
        out[17] + 256 * out[18] + 65536 * out[19] + 16777216 * out[20]
        = Len(out) - 20

\* C2: the output holds the streams of the input files in the order given,
\* then exactly one end-of-tape block; nothing of the end-of-tape block is
\* written before all file streams are, and no file stream holds a type-5
\* control block.
C2_OneEndOfTapeAfterAllFiles ==
    /\ pc \in {"loop", "error"} => out = <<>>
    /\ pc = "loop" => data = FileStreams(SubSeq(files, 1, idx - 1))
    /\ pc = "header_written" => Len(out) = 20
    /\ pc = "data_written" => SubSeq(out, 21, Len(out)) = FileStreams(files)
    /\ pc = "done" =>
        /\ SubSeq(out, 21, Len(out) - 9067) = FileStreams(files)
        /\ EndOfTapeAt(out, Len(out) - 9067)
        /\ \A j \in 1..Len(files) :
              /\ DecodeByte(out, 20 + StreamOffset(files, j) + 27320) = 3
              /\ DecodeByte(out, 20 + StreamOffset(files, j) + 31441) = 3

C2_Witness ==
    /\ pc = "done"
    /\ Len(files) >= 1
    /\ Len(out) = 20 + Len(data) + 9067
    /\ EndOfTapeAt(out, 20 + Len(data))
    /\ DecodeByte(out, 20 + 27320) = 3

\* C3: a file of fewer than 2 bytes ends the run in the error state, with
\* nothing of that file in read_file's list, nothing written to the output,
\* and the streams of the files encoded before it unchanged in data; the loop
\* never goes past such a file.
C3_ShortInputFailsBeforeAnyPulse ==
    /\ \A j \in 1..Len(files) :
          (Len(files[j].content) < 2 /\ pc /= "error") => idx <= j
    /\ (pc = "error" /\ Len(files[idx].content) < 2) =>
          /\ raised = "struct.error"
          /\ read_file(files[idx].name, files[idx].content).encoded = <<>>
          /\ out = <<>>
          /\ data = FileStreams(SubSeq(files, 1, idx - 1))
          /\ Len(data) = StreamOffset(files, idx)

C3_Witness ==
    /\ pc = "error"
    /\ idx = 2
    /\ Len(files[2].content) < 2
    /\ Len(data) > 0

\* C4: read_file raises only when the input has fewer than 2 bytes.
C4_ShortInputIsTheOnlyFailure ==
    (pc = "return" /\ Len(args.content) >= 2) => ret.raised = "none"

\* C5 (as claimed): make_header returns 192 bytes, the last being the XOR of
\* the 191 before it.
C5_HeaderIs192Bytes ==
    pc = "return" =>
        /\ Len(ret) = 192
        /\ ret[192] = XorOfAll(SubSeq(ret, 1, 191))

\* C5 (amended): make_header returns 193 bytes (type, two addresses, 16 label
\* bytes, 171 body bytes, checkbyte), the last being the XOR of the 192
\* before it.
C5_HeaderIs193BytesWithXorChecksum ==
    pc = "return" =>
        /\ Len(ret) = 193
        /\ ret[193] = XorOfAll(SubSeq(ret, 1, 192))

C5_Witness ==
    /\ pc = "return"
    /\ Len(args.filename) > 16
    /\ args.t = 255
    /\ ret[193] /= 0

\* C6: bytes 5..20 of the control block are the first 16 characters of the
\* label in upper case, padded with spaces: the remap changes no character.
C6_LabelIsUpperCasedAndPadded ==
    pc = "return" =>
        \A i \in 1..16 :
            ret[5 + i] = IF i <= Len(args.filename)
                         THEN UpperChar(args.filename[i])
                         ELSE 32

\* C7: encbytes returns 20 pulses per byte, in order: (LONG, MEDIUM), bits 0
\* to 7, then the bit 1 XOR (XOR of the 8 bits); the 9 bits of a byte hold an
\* odd number of 1-bits.
C7_TwentyPulsesPerByteOddParity ==
    pc = "return" =>
        /\ Len(ret) = 20 * Len(args.data)
        /\ \A i \in 1..Len(args.data) :
              LET off == 20 * (i - 1)
                  c == args.data[i]
                  ones == Cardinality({b \in 0..7 : (c \div (2 ^ b)) % 2 = 1})
              IN /\ ret[off + 1] = 86
                 /\ ret[off + 2] = 66
                 /\ \A b \in 0..7 :
                       PulseBit(ret, off + 3 + 2 * b) = (c \div (2 ^ b)) % 2
                 /\ PulseBit(ret, off + 19) = (1 + ones) % 2
                 /\ Cardinality({b \in 0..8 :
                                    PulseBit(ret, off + 3 + 2 * b) = 1}) % 2 = 1

C7_Witness ==
    /\ pc = "return"
    /\ Len(args.data) = 3
    /\ args.data[1] = 85
    /\ args.data[2] = 128

\* C8 (as claimed): the stream read_file returns has 42108 + 40 * n elements,
\* n the number of program bytes.
C8_StreamLengthIs42108 ==
    (pc = "return" /\ ret.raised = "none") =>
        Len(ret.encoded) = 42108 + 40 * (Len(args.content) - 2)

\* C8 (amended): the header blocks have 193 bytes, so the stream read_file
\* returns has 42148 + 40 * n elements, n the number of program bytes,
\* whatever the data, the load address and the name; its regions lie where
\* the region sizes put them.
C8_StreamLengthAndLayout ==
    (pc = "return" /\ ret.raised = "none") =>
        LET n == Len(args.content) - 2
            e == ret.encoded
        IN /\ Len(e) = 42148 + 40 * n
           /\ RecMarkAt(e, 0)
           /\ AllShort(e, 4, 27136)
           /\ AllFramed(e, 27140, 9 + 193)
           /\ EndMarkAt(e, 31180)
           /\ AllShort(e, 31182, 79)
           /\ AllFramed(e, 31261, 9 + 193)
           /\ EndMarkAt(e, 35301)
           /\ AllShort(e, 35303, 78)
           /\ RecMarkAt(e, 35381)
           /\ AllShort(e, 35385, 5376)
           /\ AllFramed(e, 40761, 9 + n + 1)
           /\ EndMarkAt(e, 40961 + 20 * n)
           /\ AllShort(e, 40963 + 20 * n, 79)
           /\ AllFramed(e, 41042 + 20 * n, 9 + n + 1)
           /\ EndMarkAt(e, 41242 + 40 * n)
           /\ AllShort(e, 41244 + 40 * n, 904)
           /\ 42148 + 40 * n
              = 4 + 27136 + 9 * 20 + 193 * 20 + 2 + 79 + 9 * 20 + 193 * 20 + 2
                + 78 + 4 + 5376 + 9 * 20 + (n + 1) * 20 + 2 + 79 + 9 * 20
                + (n + 1) * 20 + 2 + 904

C8_Witness ==
    /\ pc = "return"
    /\ ret.raised = "none"
    /\ Len(args.content) = 2 + MaxProgLen
    /\ args.filename = NameLong

\* C9 (as claimed): both header blocks hold the same 192 bytes: 192 byte
\* frames follow each header sync, then the end mark.
C9_HeaderCopiesHold192Bytes ==
    (pc = "return" /\ ret.raised = "none") =>
        /\ AllFramed(ret.encoded, 27320, 192)
        /\ EndMarkAt(ret.encoded, 27320 + 192 * 20)
        /\ SubSeq(ret.encoded, 27321, 27320 + 192 * 20)
           = SubSeq(ret.encoded, 27320 + 192 * 20 + 2 + 79 + 180 + 1,
                    27320 + 192 * 20 + 2 + 79 + 180 + 192 * 20)

\* C9 (amended): both header blocks hold the same 193 bytes (a control block
\* of type 3 with the load address, closed by the XOR of its 192 bytes), both
\* data blocks the program bytes followed by their XOR (0 for no bytes); the
\* primary copies follow the sync 0x89..0x81, the redundant ones the sync 9..1.
C9_RedundantCopiesAreIdentical ==
    (pc = "return" /\ ret.raised = "none") =>
        LET n == Len(args.content) - 2
            e == ret.encoded
            prog == SubSeq(args.content, 3, Len(args.content))
            block == DecodeBytes(e, 27320, 193)
        IN /\ AllFramed(e, 27320, 193)
           /\ EndMarkAt(e, 31180)
           /\ SubSeq(e, 27321, 31180) = SubSeq(e, 31442, 35301)
           /\ block[1] = 3
           /\ block[2] = args.content[1]
           /\ block[3] = args.content[2]
           /\ block[193] = XorOfAll(SubSeq(block, 1, 192))
           /\ DecodeBytes(e, 27140, 9) = Countdown137
           /\ DecodeBytes(e, 31261, 9) = Countdown9
           /\ DecodeBytes(e, 40761, 9) = Countdown137
           /\ DecodeBytes(e, 41042 + 20 * n, 9) = Countdown9
           /\ AllFramed(e, 40941, n + 1)
           /\ DecodeBytes(e, 40941, n + 1) = Append(prog, XorOfAll(prog))
           /\ DecodeBytes(e, 41222 + 20 * n, n + 1) = Append(prog, XorOfAll(prog))
           /\ SubSeq(e, 40942, 40961 + 20 * n)
              = SubSeq(e, 41223 + 20 * n, 41242 + 40 * n)

C9_Witness ==
    /\ pc = "return"
    /\ ret.raised = "none"
    /\ Len(args.content) = 4
    /\ XorOfAll(SubSeq(args.content, 3, 4)) /= 0

\* the elements of s after offset base that are no pulse code are exactly
\* the bytes of two recording markers per file of fs: one at the start of the
\* file's stream, one right before its second leader of 0x1500 pulses
OnlyMarkersAreNotPulses(s, base, fs) ==
    LET nonPulse == {i \in (base + 1)..Len(s) : s[i] \notin {48, 66, 86}}
        starts == {base + StreamOffset(fs, j) : j \in 1..Len(fs)}
        marks == starts \cup {o + 35381 : o \in starts}
    IN /\ nonPulse = {o + k : o \in marks, k \in 1..4}
       /\ \A o \in marks : RecMarkAt(s, o)
       /\ \A o \in starts : AllShort(s, o + 35385, 5376)
       /\ Cardinality(nonPulse) = 8 * Len(fs)

\* C10: in the payload of a finished run, the bytes that are not one of the
\* three pulse codes are exactly the bytes of two recording markers per file,
\* one at the start of the file's stream and one right before its second
\* leader; the end-of-tape block holds none.  The same holds of the streams
\* gathered in data while the files are encoded.
C10_OnlyMarkersAreNotPulses ==
    /\ pc = "loop" => OnlyMarkersAreNotPulses(data, 0, SubSeq(files, 1, idx - 1))
    /\ pc = "done" =>
          /\ OnlyMarkersAreNotPulses(out, 20, files)
          /\ \A i \in (Len(out) - 9067 + 1)..Len(out) : out[i] \in {48, 66, 86}

C10_Witness ==
    /\ pc = "done"
    /\ RecMarkAt(out, 20)
    /\ RecMarkAt(out, 20 + 35381)
    /\ Cardinality({i \in 21..Len(out) : out[i] \notin {48, 66, 86}}) = 8

====
